---- MODULE Spec2Model ----
(***************************************************************************)
(* Gated PixelCNN notebook (01_Gated-PixelCNN_MNIST.ipynb): the masked     *)
(* convolutions VStack and HStack, the GatedLayer block, the network built *)
(* from them and the image completion loop.                                *)
(*                                                                         *)
(* Tensors are modelled by their shape, by the expression they were        *)
(* computed with, and by the set of elements whose value may differ        *)
(* between two runs of the program started on two inputs ("changed"       *)
(* elements).  An element of a convolution output may differ exactly when  *)
(* one of the input elements under its kernel window may differ (weights   *)
(* are arbitrary, so no tap is assumed to be zero); zero padding and bias  *)
(* never differ; an elementwise operation's output may differ when one of  *)
(* its operands may.  "The output at q depends only on the inputs in R"    *)
(* is then: whenever the two inputs agree on R, the output at q is not in  *)
(* the changed set.                                                        *)
(***************************************************************************)
EXTENDS Integers, Sequences, FiniteSets, TLC

VARIABLES
    net,      \* the block under construction / built (cell 3 classes, cell 4 net)
    x,        \* the input tensor handed to the block
    loc,      \* the local variables of the last hybrid_forward
    y,        \* the tensor returned by the last forward call
    pc,       \* position in the program
    reconst,  \* the array being completed (cell 7)
    i,        \* row of the completion loop
    j,        \* column of the completion loop
    written,  \* the positions of reconst assigned so far, in order (cell 7)
    train_loader,     \* cell 5
    test_loader,      \* cell 5
    trainer,          \* gluon.Trainer (cell 6)
    params,           \* the parameters of net: the number of updates applied
    grad,             \* the gradient buffers of the parameters
    epoch,            \* the epoch loop of cell 6
    batch,            \* the batch the loader iteration is at
    loss,             \* loss of the current training batch
    cumulative_loss,  \* the losses added up in the epoch
    test_loss,        \* the test losses added up in the epoch
    calls             \* the autograd / optimizer calls made in the epoch, in order

\* The state of the training cell.
training ==
    <<train_loader, test_loader, trainer, params, grad, epoch, batch, loss,
      cumulative_loss, test_loss, calls>>

vars == <<net, x, loc, y, pc, reconst, i, j, written, training>>

(***************************************************************************)
(* Bounds of the model.                                                    *)
(***************************************************************************)
MaxK == 3          \* kernel sizes 1..MaxK of a stand-alone VStack / HStack
MaxDil == 2        \* dilations 1..MaxDil
MaxH == 3          \* input heights 1..MaxH of a stand-alone layer
MaxW == 3          \* input widths 1..MaxW of a stand-alone layer
MaxChanged == 1    \* number of input elements in which the two inputs differ

(***************************************************************************)
(* Tensors (one image of the batch; the framework treats the images of a   *)
(* batch independently).  t[c] is the set of positions <<row, col>> of     *)
(* channel c that may differ; rows and columns count from 0 as in Python.  *)
(* t is built with SubSeq so that it is a tuple of enumerated sets.        *)
(***************************************************************************)
Positions(h, w) == {<<r, c>> : r \in 0 .. h - 1, c \in 0 .. w - 1}

Channels(a) == Len(a.t)

Failed == [ok |-> FALSE, H |-> 0, W |-> 0, t |-> <<>>, e |-> <<"raise", <<>>>>]

NoTensor == [ok |-> TRUE, H |-> 0, W |-> 0, t |-> <<>>, e |-> <<"none", <<>>>>]

\* The union over the channels of the changed positions.
AnyChannel(a) ==
    {q \in Positions(a.H, a.W) : \E c \in 1 .. Channels(a) : q \in a.t[c]}

Max(m, n) == IF m < n THEN n ELSE m

(***************************************************************************)
(* gluon.nn.Conv2D: the layer object and its forward pass                  *)
(* (cross-correlation with symmetric zero padding).                        *)
(***************************************************************************)
Conv2D(name, channels, kernel_size, strides, padding, dilation, activation, in_channels) ==
    [cls |-> "Conv2D", name |-> name, channels |-> channels,
     kernel |-> kernel_size, strides |-> strides, padding |-> padding,
     dilation |-> dilation, activation |-> activation,
     in_channels |-> in_channels]

\* Size of one spatial axis of the convolution output.
ConvOutSize(n, k, s, p, d) == (n + 2 * p - d * (k - 1) - 1) \div s + 1

\* The input index read by tap u of the kernel for output index o.
ConvTap(o, u, s, p, d) == o * s + u * d - p

Convolution(L, a) ==
    LET kh == L.kernel[1]
        kw == L.kernel[2]
        ho == ConvOutSize(a.H, kh, L.strides[1], L.padding[1], L.dilation[1])
        wo == ConvOutSize(a.W, kw, L.strides[2], L.padding[2], L.dilation[2])
        src == AnyChannel(a)
        hit == {q \in Positions(ho, wo) :
                  \E u \in 0 .. kh - 1, v \in 0 .. kw - 1 :
                     <<ConvTap(q[1], u, L.strides[1], L.padding[1], L.dilation[1]),
                       ConvTap(q[2], v, L.strides[2], L.padding[2], L.dilation[2])>>
                        \in src}
        lin == <<L.name, <<a.e>>>>
    IN  IF /\ a.ok
           /\ L.in_channels \in {0, Channels(a)}
           /\ a.H + 2 * L.padding[1] >= L.dilation[1] * (kh - 1) + 1
           /\ a.W + 2 * L.padding[2] >= L.dilation[2] * (kw - 1) + 1
        THEN [ok |-> TRUE, H |-> ho, W |-> wo,
              t |-> SubSeq([o \in 1 .. L.channels |-> hit], 1, L.channels),
              e |-> IF L.activation = "None" THEN lin ELSE <<L.activation, <<lin>>>>]
        ELSE Failed

\* F.slice_like(a, b, axes=[2,3]): the leading b.H rows and b.W columns of a.
slice_like(a, b) ==
    IF a.ok /\ b.ok /\ b.H <= a.H /\ b.W <= a.W
    THEN [ok |-> TRUE, H |-> b.H, W |-> b.W,
          t |-> SubSeq([c \in 1 .. Channels(a) |->
                          {q \in a.t[c] : q[1] < b.H /\ q[2] < b.W}],
                       1, Channels(a)),
          e |-> <<"slice_like", <<a.e, b.e>>>>]
    ELSE Failed

(***************************************************************************)
(* VStack and HStack (cell 3).                                             *)
(***************************************************************************)
VStackPaddingNoShift(kernel_size, kernel_type) ==
    <<kernel_size[1] - 1, kernel_size[2] \div 2>>

VStackPaddingShiftB(kernel_size, kernel_type) ==
    <<kernel_size[1], kernel_size[2] \div 2>>

VStackPaddingRoundDown(kernel_size, kernel_type) ==
    <<IF kernel_type = "A" THEN kernel_size[1] ELSE kernel_size[1] - 1,
      (kernel_size[2] - 1) \div 2>>

VStackPadding(kernel_size, kernel_type) ==
    <<IF kernel_type = "A" THEN kernel_size[1] ELSE kernel_size[1] - 1,
      kernel_size[2] \div 2>>

HStackPaddingNoShift(kernel_len, kernel_type) ==
    <<0, kernel_len - 1>>

HStackPaddingCentred(kernel_len, kernel_type) ==
    <<0, IF kernel_type = "A" THEN kernel_len ELSE kernel_len \div 2>>

HStackPadding(kernel_len, kernel_type) ==
    <<0, IF kernel_type = "A" THEN kernel_len ELSE kernel_len - 1>>

\* kernel_type is not kept by the object; the record carries it so that
\* properties can name the layer's type.
VStack(name, channels, kernel_size, strides, dilation, in_channels, kernel_type) ==
    [cls |-> "VStack", kernel_type |-> kernel_type,
     conv |-> Conv2D(name, channels, kernel_size, strides,
                     VStackPadding(kernel_size, kernel_type),
                     dilation, "None", in_channels)]

HStack(name, channels, kernel_len, strides, dilation, in_channels, kernel_type) ==
    [cls |-> "HStack", kernel_type |-> kernel_type,
     conv |-> Conv2D(name, channels, <<1, kernel_len>>, strides,
                     HStackPadding(kernel_len, kernel_type),
                     dilation, "None", in_channels)]

\* VStack.hybrid_forward and HStack.hybrid_forward are the same two lines.
StackLocals(L, a) == [act |-> Convolution(L.conv, a)]

StackForward(L, a) == slice_like(StackLocals(L, a).act, a)

(***************************************************************************)
(* The other framework operations GatedLayer.hybrid_forward calls.         *)
(***************************************************************************)
\* F.split(a, axis=1, num_outputs=2)[k-1]
split(a, k) ==
    IF a.ok /\ Channels(a) % 2 = 0
    THEN [ok |-> TRUE, H |-> a.H, W |-> a.W,
          t |-> SubSeq(a.t, (k - 1) * (Channels(a) \div 2) + 1,
                            k * (Channels(a) \div 2)),
          e |-> <<IF k = 1 THEN "split[0]" ELSE "split[1]", <<a.e>>>>]
    ELSE Failed

\* F.sigmoid, F.tanh: elementwise.
Elementwise(op, a) ==
    IF a.ok THEN [a EXCEPT !.e = <<op, <<a.e>>>>] ELSE Failed

\* Two axis lengths broadcast when they are equal or one of them is 1.
Broadcasts(m, n) == m = n \/ m = 1 \/ n = 1

\* The element of operand a that position q of channel c of a broadcast
\* result reads.
BroadcastChanged(a, c, q) ==
    <<IF a.H = 1 THEN 0 ELSE q[1], IF a.W = 1 THEN 0 ELSE q[2]>>
        \in a.t[IF Channels(a) = 1 THEN 1 ELSE c]

\* NDArray a + b and a * b (broadcast_add, broadcast_mul).
Broadcast(op, a, b) ==
    IF /\ a.ok
       /\ b.ok
       /\ Channels(a) >= 1
       /\ Channels(b) >= 1
       /\ Broadcasts(Channels(a), Channels(b))
       /\ Broadcasts(a.H, b.H)
       /\ Broadcasts(a.W, b.W)
    THEN [ok |-> TRUE, H |-> Max(a.H, b.H), W |-> Max(a.W, b.W),
          t |-> SubSeq([c \in 1 .. Max(Channels(a), Channels(b)) |->
                          {q \in Positions(Max(a.H, b.H), Max(a.W, b.W)) :
                             BroadcastChanged(a, c, q) \/ BroadcastChanged(b, c, q)}],
                       1, Max(Channels(a), Channels(b))),
          e |-> <<op, <<a.e, b.e>>>>]
    ELSE Failed

concatSwapped(a, b) ==
    IF a.ok /\ b.ok /\ a.H = b.H /\ a.W = b.W
    THEN [ok |-> TRUE, H |-> a.H, W |-> a.W, t |-> b.t \o a.t,
          e |-> <<"concat", <<b.e, a.e>>>>]
    ELSE Failed

\* F.concat(a, b, dim=1)
concat(a, b) ==
    IF a.ok /\ b.ok /\ a.H = b.H /\ a.W = b.W
    THEN [ok |-> TRUE, H |-> a.H, W |-> a.W, t |-> a.t \o b.t,
          e |-> <<"concat", <<a.e, b.e>>>>]
    ELSE Failed

\* F.zeros(shape)
zeros(c, h, w) ==
    [ok |-> TRUE, H |-> h, W |-> w, t |-> SubSeq([k \in 1 .. c |-> {}], 1, c),
     e |-> <<"zeros", <<>>>>]

(***************************************************************************)
(* GatedLayer (cell 3).                                                    *)
(***************************************************************************)
GatedLayer(channels, kernel_size, strides, dilation, in_channels, kernel_type, residual) ==
    [cls |-> "GatedLayer", kernel_type |-> kernel_type,
     channels |-> channels, residual |-> residual,
     vstack |-> VStack("vstack", channels * 2, kernel_size, strides, dilation,
                       in_channels, kernel_type),
     hstack |-> HStack("hstack", channels * 2, kernel_size[2], strides, dilation,
                       in_channels, kernel_type),
     vtoh |-> Conv2D("vtoh", channels * 2, <<1, 1>>, strides, <<0, 0>>, <<1, 1>>,
                     "None", channels * 2),
     htoh |-> Conv2D("htoh", channels, <<1, 1>>, strides, <<0, 0>>, <<1, 1>>,
                     "None", channels)]

\* F.sigmoid(presig) * F.tanh(pretanh) of the two channel halves of a.
Gate(a) ==
    Broadcast("mul", Elementwise("sigmoid", split(a, 1)),
                     Elementwise("tanh", split(a, 2)))

MixGated(L, hx, vstack) ==
    Broadcast("add", StackForward(L.hstack, hx), Convolution(L.vtoh, Gate(vstack)))

\* hstack = self.hstack(hx) + self.vtoh(vstack)
Mix(L, hx, vstack) ==
    Broadcast("add", StackForward(L.hstack, hx), Convolution(L.vtoh, vstack))

ResidualAlways(L, hx, hstack_preres) ==
    IF ~hx.ok THEN Failed
    ELSE IF Channels(hx) < L.channels
    THEN Broadcast("add", hstack_preres,
                   concat(hx, zeros(L.channels - Channels(hx), hx.H, hx.W)))
    ELSE Broadcast("add", hstack_preres, hx)

\* The residual connection for hstack.
Residual(L, hx, hstack_preres) ==
    IF ~L.residual THEN hstack_preres
    ELSE IF ~hx.ok THEN Failed
    ELSE IF Channels(hx) < L.channels
    THEN Broadcast("add", hstack_preres,
                   concat(hx, zeros(L.channels - Channels(hx), hx.H, hx.W)))
    ELSE Broadcast("add", hstack_preres, hx)

GatedLocals(L, a) ==
    LET vx == split(a, 1)
        hx == split(a, 2)
        vstack == StackForward(L.vstack, vx)
        hstack == Mix(L, hx, vstack)
        vstack_out == Gate(vstack)
        hstack_preres == Convolution(L.htoh, Gate(hstack))
        hstack_out == Residual(L, hx, hstack_preres)
    IN  [vx |-> vx, hx |-> hx, vstack |-> vstack, hstack |-> hstack,
         vstack_out |-> vstack_out, hstack_preres |-> hstack_preres,
         hstack_out |-> hstack_out]

GatedForward(L, a) ==
    LET l == GatedLocals(L, a) IN concat(l.vstack_out, l.hstack_out)

(***************************************************************************)
(* gluon.nn.Sequential and the network of cell 4.                          *)
(***************************************************************************)
\* block(x) for one child block of a Sequential.
BlockForward(L, a) ==
    IF L.cls = "GatedLayer" THEN GatedForward(L, a)
    ELSE IF L.cls \in {"VStack", "HStack"} THEN StackForward(L, a)
    ELSE Convolution(L, a)

\* Sequential.forward: for block in children: x = block(x).  The expression
\* of the result names the network call only.
RECURSIVE SequentialForward(_, _)
SequentialForward(blocks, a) ==
    IF blocks = <<>> THEN a
    ELSE SequentialForward(Tail(blocks), BlockForward(Head(blocks), a))

NetForward(n, a) ==
    LET r == SequentialForward(n.blocks, a)
    IN  IF r.ok THEN [r EXCEPT !.e = <<"net", <<a.e>>>>] ELSE Failed

ConvChannels == 8      \* gluon.nn.Conv2D(8, (1,1))
GatedChannels == 16    \* GatedLayer(16, ...)
KernelSize == 5        \* GatedLayer(.., (5,5), ..)
OutChannels == 1       \* gluon.nn.Conv2D(1, (1,1), activation='relu')

FirstKernelTypeB == "B"

\* kernel_type of the first GatedLayer of the network.
FirstKernelType == "A"

\* The blocks added to net, in the order of the net.add calls.
NotebookBlocks ==
    <<Conv2D("conv0", ConvChannels, <<1, 1>>, <<1, 1>>, <<0, 0>>, <<1, 1>>, "None", 0),
      GatedLayer(GatedChannels, <<KernelSize, KernelSize>>, <<1, 1>>, <<1, 1>>, 0,
                 FirstKernelType, FALSE),
      GatedLayer(GatedChannels, <<KernelSize, KernelSize>>, <<1, 1>>, <<1, 1>>, 0, "B", FALSE),
      GatedLayer(GatedChannels, <<KernelSize, KernelSize>>, <<1, 1>>, <<1, 1>>, 0, "B", FALSE),
      GatedLayer(GatedChannels, <<KernelSize, KernelSize>>, <<1, 1>>, <<1, 1>>, 0, "B", FALSE),
      GatedLayer(GatedChannels, <<KernelSize, KernelSize>>, <<1, 1>>, <<1, 1>>, 0, "B", FALSE),
      GatedLayer(GatedChannels, <<KernelSize, KernelSize>>, <<1, 1>>, <<1, 1>>, 0, "B", FALSE),
      Conv2D("conv7", OutChannels, <<1, 1>>, <<1, 1>>, <<0, 0>>, <<1, 1>>, "relu", 0)>>

(***************************************************************************)
(* Inputs: a tensor of the given shape whose elements in D may differ      *)
(* between the two runs.                                                   *)
(***************************************************************************)
RECURSIVE UpTo(_, _)
UpTo(S, n) ==
    IF n = 0 THEN {{}}
    ELSE LET T == UpTo(S, n - 1) IN T \cup {d \cup {s} : d \in T, s \in S}

Elements(c, h, w) == {<<k, q>> : k \in 1 .. c, q \in Positions(h, w)}

Input(c, h, w, D) ==
    [ok |-> TRUE, H |-> h, W |-> w,
     t |-> SubSeq([k \in 1 .. c |-> {q \in Positions(h, w) : <<k, q>> \in D}], 1, c),
     e |-> <<"x", <<>>>>]

KernelTypes == {"A", "B"}

NoBlock == [cls |-> "None"]

NoLocals == [act |-> NoTensor]

NoLoader == [len |-> 0, batch_size |-> 0]

NoTrainer == [optimizer |-> "None", batch_size |-> 0]

NoGrad == [fresh |-> FALSE, of |-> 0]

NoBatch == [index |-> 0, size |-> 0]

NoLoss == [e |-> <<"none", <<>>>>, size |-> 0, recorded |-> FALSE]

\* The training cell has not run.
Untrained ==
    /\ train_loader = NoLoader
    /\ test_loader = NoLoader
    /\ trainer = NoTrainer
    /\ params = 0
    /\ grad = NoGrad
    /\ epoch = 0
    /\ batch = NoBatch
    /\ loss = NoLoss
    /\ cumulative_loss = 0
    /\ test_loss = 0
    /\ calls = <<>>

Idle ==
    /\ reconst = NoTensor
    /\ i = 0
    /\ j = 0
    /\ written = <<>>
    /\ Untrained

(***************************************************************************)
(* A stand-alone VStack or HStack applied to one input (cell 3).           *)
(***************************************************************************)
InitStack ==
    /\ net = NoBlock
    /\ x = NoTensor
    /\ loc = NoLocals
    /\ y = NoTensor
    /\ pc = "new"
    /\ Idle

NewVStack ==
    /\ pc = "new"
    /\ \E kh \in 1 .. MaxK, kw \in 1 .. MaxK, d \in 1 .. MaxDil, kt \in KernelTypes :
          net' = VStack("vstack", 1, <<kh, kw>>, <<1, 1>>, <<d, d>>, 0, kt)
    /\ pc' = "built"
    /\ UNCHANGED <<x, loc, y, reconst, i, j, written, training>>

NewHStack ==
    /\ pc = "new"
    /\ \E kl \in 1 .. MaxK, d \in 1 .. MaxDil, kt \in KernelTypes :
          net' = HStack("hstack", 1, kl, <<1, 1>>, <<d, d>>, 0, kt)
    /\ pc' = "built"
    /\ UNCHANGED <<x, loc, y, reconst, i, j, written, training>>

StackInput ==
    /\ pc = "built"
    /\ \E h \in 1 .. MaxH, w \in 1 .. MaxW :
          \E D \in UpTo(Elements(1, h, w), MaxChanged) :
             x' = Input(1, h, w, D)
    /\ pc' = "input"
    /\ UNCHANGED <<net, loc, y, reconst, i, j, written, training>>

StackCall ==
    /\ pc = "input"
    /\ loc' = StackLocals(net, x)
    /\ y' = StackForward(net, x)
    /\ pc' = "done"
    /\ UNCHANGED <<net, x, reconst, i, j, written, training>>

NextStack ==
    \/ NewVStack
    \/ NewHStack
    \/ StackInput
    \/ StackCall

SpecStack == InitStack /\ [][NextStack]_vars

(***************************************************************************)
(* Vocabulary of the properties.                                           *)
(***************************************************************************)
\* The positions where the two inputs / the two outputs may differ.
Changed(a) == AnyChannel(a)

\* The stand-alone layer has been applied.
Applied(cls, kt) ==
    /\ pc = "done"
    /\ net.cls = cls
    /\ net.kernel_type = kt

Undilated == net.conv.dilation = <<1, 1>>

\* Input position p lies in the window a type-A VStack reads for output q.
VStackAWindow(p, q) ==
    /\ p[1] \in q[1] - net.conv.kernel[1] .. q[1] - 1
    /\ p[2] \in q[2] - net.conv.kernel[2] \div 2
                 .. q[2] - net.conv.kernel[2] \div 2 + net.conv.kernel[2] - 1

\* C3: a type-A VStack (stride 1, dilation 1, kernel (kh, kw)) reads, for the
\* output at (i, j), only input rows i-kh .. i-1 and the kw columns
\* j - kw div 2 .. j - kw div 2 + kw - 1: never the position (i, j) itself,
\* never a row >= i.
VStackARowsAbove ==
    (Applied("VStack", "A") /\ Undilated) =>
        /\ y.ok
        /\ \A q \in Changed(y) : \E p \in Changed(x) : VStackAWindow(p, q)

\* A type-A VStack with a 2 x 3 kernel has changed an output.
VStackAReached ==
    /\ Applied("VStack", "A") /\ Undilated
    /\ net.conv.kernel = <<2, 3>>
    /\ Changed(y) # {}

\* Input position p lies in the window a type-A HStack reads for output q.
HStackAWindow(p, q) ==
    /\ p[1] = q[1]
    /\ p[2] \in q[2] - net.conv.kernel[2] .. q[2] - 1

\* C4: a type-A HStack (stride 1, dilation 1, kernel length kl) reads, for
\* the output at (i, j), only input row i, columns j-kl .. j-1: never the
\* position (i, j), never a column > j, never another row.
HStackAColumnsLeft ==
    (Applied("HStack", "A") /\ Undilated) =>
        /\ y.ok
        /\ \A q \in Changed(y) : \E p \in Changed(x) : HStackAWindow(p, q)

\* A type-A HStack with kernel length 2 has changed an output.
HStackAReached ==
    /\ Applied("HStack", "A") /\ Undilated
    /\ net.conv.kernel = <<1, 2>>
    /\ Changed(y) # {}

\* C5 as stated: a type-B VStack (stride 1, dilation 1) reads, for the output
\* at (i, j), only rows above i and, in row i, no position but (i, j).
VStackBOnlyPriorOrSelf ==
    (Applied("VStack", "B") /\ Undilated) =>
        \A q \in Changed(y) : \E p \in Changed(x) : p[1] < q[1] \/ p = q

\* Input position p lies in the window a type-B VStack reads for output q.
VStackBWindow(p, q) ==
    /\ p[1] \in q[1] - net.conv.kernel[1] + 1 .. q[1]
    /\ p[2] \in q[2] - net.conv.kernel[2] \div 2
                 .. q[2] - net.conv.kernel[2] \div 2 + net.conv.kernel[2] - 1

\* C5 as amended: a type-B VStack (stride 1, dilation 1, kernel (kh, kw))
\* reads, for the output at (i, j), only rows i-kh+1 .. i (row i included, no
\* row below i) and in each of them the kw columns j - kw div 2 ..
\* j - kw div 2 + kw - 1, which in row i lie on both sides of j.
VStackBRowsUpToCurrent ==
    (Applied("VStack", "B") /\ Undilated) =>
        /\ y.ok
        /\ \A q \in Changed(y) : \E p \in Changed(x) : VStackBWindow(p, q)

\* The output at (i, j) of a type-B VStack changes with an input of row i to
\* the right of j.
VStackBReadsRightOfCurrent ==
    /\ Applied("VStack", "B") /\ Undilated
    /\ \E q \in Changed(y) : \E p \in Changed(x) : p[1] = q[1] /\ p[2] > q[2]

\* Input position p lies in the window a type-B HStack reads for output q.
HStackBWindow(p, q) ==
    /\ p[1] = q[1]
    /\ p[2] \in q[2] - net.conv.kernel[2] + 1 .. q[2]

\* C6: a type-B HStack (stride 1, dilation 1, kernel length kl) reads, for
\* the output at (i, j), only input row i, columns j-kl+1 .. j; the current
\* position is among them, no column right of j is.
HStackBColumnsUpToCurrent ==
    (Applied("HStack", "B") /\ Undilated) =>
        /\ y.ok
        /\ \A q \in Changed(y) : \E p \in Changed(x) : HStackBWindow(p, q)
        /\ Changed(x) \subseteq Changed(y)

\* A type-B HStack with kernel length 3 has changed an output right of the
\* changed input.
HStackBReached ==
    /\ Applied("HStack", "B") /\ Undilated
    /\ net.conv.kernel = <<1, 3>>
    /\ \E q \in Changed(y) : \E p \in Changed(x) : p[2] < q[2]

\* C7: with stride 1 and dilation 1, for every kernel size, both kernel
\* types and every input size, the convolution result is at least as large
\* as the input in both spatial axes, and the tensor returned has the
\* input's height and width and holds the leading rows and columns of the
\* convolution result.
StackCropsToInput ==
    (pc = "done" /\ net.cls \in {"VStack", "HStack"} /\ Undilated) =>
        /\ loc.act.ok
        /\ loc.act.H >= x.H
        /\ loc.act.W >= x.W
        /\ y.ok
        /\ y.H = x.H
        /\ y.W = x.W
        /\ Channels(y) = Channels(loc.act)
        /\ \A c \in 1 .. Channels(y) :
              y.t[c] = loc.act.t[c] \cap Positions(x.H, x.W)

\* A convolution result strictly larger than the input in both axes is
\* cropped, and loses a changed element.
StackCropReached ==
    /\ pc = "done" /\ net.cls = "VStack" /\ Undilated
    /\ net.conv.kernel = <<2, 2>>
    /\ loc.act.H > x.H
    /\ loc.act.W > x.W
    /\ y.ok
    /\ Changed(loc.act) # Changed(y)

\* C8: for every dilation, a type-A VStack reads only rows above the output
\* position and a type-A HStack only columns left of it in the same row.
TypeACausalForEveryDilation ==
    (pc = "done" /\ net.cls \in {"VStack", "HStack"} /\ net.kernel_type = "A") =>
        \A q \in Changed(y) : \E p \in Changed(x) :
           IF net.cls = "VStack" THEN p[1] < q[1]
           ELSE p[1] = q[1] /\ p[2] < q[2]

(***************************************************************************)
(* A stand-alone GatedLayer applied to one input (cell 3).                 *)
(***************************************************************************)
MaxChannels == 2   \* GatedLayer channels 1..MaxChannels

\* Channel counts of the layer input: even and odd, with halves below, at
\* and above the layer's channels.
InputChannels == 1 .. 2 * MaxChannels + 2

NewGatedLayer ==
    /\ pc = "new"
    /\ \E ch \in 1 .. MaxChannels, k \in 1 .. MaxK,
          kt \in KernelTypes, res \in BOOLEAN :
          net' = GatedLayer(ch, <<k, k>>, <<1, 1>>, <<1, 1>>, 0, kt, res)
    /\ pc' = "built"
    /\ UNCHANGED <<x, loc, y, reconst, i, j, written, training>>

GatedInput ==
    /\ pc = "built"
    /\ \E c \in InputChannels :
          \E D \in UpTo(Elements(c, MaxH, MaxW), 1) :
             x' = Input(c, MaxH, MaxW, D)
    /\ pc' = "input"
    /\ UNCHANGED <<net, loc, y, reconst, i, j, written, training>>

GatedCall ==
    /\ pc = "input"
    /\ loc' = GatedLocals(net, x)
    /\ y' = concat(loc'.vstack_out, loc'.hstack_out)
    /\ pc' = "done"
    /\ UNCHANGED <<net, x, reconst, i, j, written, training>>

NextGated ==
    \/ NewGatedLayer
    \/ GatedInput
    \/ GatedCall

SpecGated == InitStack /\ [][NextGated]_vars

\* Expressions, as the framework calls of the code nest.
Term1(op, a) == <<op, <<a>>>>

Term2(op, a, b) == <<op, <<a, b>>>>

GatedApplied ==
    /\ pc = "done"
    /\ net.cls = "GatedLayer"

\* C9: with residual=True the horizontal input half hx is added to the
\* horizontal stream, zero-padded in its channels whenever its channel count
\* differs from `channels` (below or above), so that the sum is well formed
\* and has exactly `channels` channels; with equal counts the output is
\* htoh(...) + hx.
ResidualPadsWheneverChannelsDiffer ==
    (GatedApplied /\ net.residual /\ loc.hstack_preres.ok) =>
        /\ loc.hstack_out.ok
        /\ Channels(loc.hstack_out) = net.channels
        /\ Channels(loc.hx) = net.channels =>
              loc.hstack_out.e = Term2("add", loc.hstack_preres.e, loc.hx.e)

\* The expressions of the forward pass, written out.
ClaimedGate(a) ==
    Term2("mul", Term1("sigmoid", Term1("split[0]", a)),
                 Term1("tanh", Term1("split[1]", a)))

ClaimedV ==
    Term2("slice_like", Term1("vstack", Term1("split[0]", x.e)),
                        Term1("split[0]", x.e))

ClaimedHpre ==
    Term2("add",
          Term2("slice_like", Term1("hstack", Term1("split[1]", x.e)),
                              Term1("split[1]", x.e)),
          Term1("vtoh", ClaimedV))

ClaimedHorizontal == Term1("htoh", ClaimedGate(ClaimedHpre))

ImgRows == 6       \* image height
ImgCols == 5       \* image width

FirstRowAbove == ImgRows \div 2 - 1

\* for i in range(14,28): the loop starts at the middle row.
FirstRow == ImgRows \div 2

LowerHalf == {q \in Positions(ImgRows, ImgCols) : q[1] >= FirstRow}

\* The elements in which the test batches of the two runs differ: none, any
\* single one, or the whole lower half.
Differences ==
    UpTo(Elements(1, ImgRows, ImgCols), 1) \cup {{<<1, q>> : q \in LowerHalf}}

Init ==
    /\ net = NoBlock
    /\ x = NoTensor
    /\ loc = NoLocals
    /\ y = NoTensor
    /\ pc = "cell4"
    /\ Idle

\* net = gluon.nn.Sequential()
NewSequential ==
    /\ pc = "cell4"
    /\ net' = [cls |-> "Sequential", blocks |-> <<>>]
    /\ pc' = "add"
    /\ UNCHANGED <<x, loc, y, reconst, i, j, written, training>>

\* net.add(...), eight times
Add ==
    /\ pc = "add"
    /\ net' = [net EXCEPT !.blocks = Append(@, NotebookBlocks[Len(@) + 1])]
    /\ pc' = IF Len(net.blocks) + 1 = Len(NotebookBlocks) THEN "data" ELSE "add"
    /\ UNCHANGED <<x, loc, y, reconst, i, j, written, training>>

\* A batch of test_loader (the training loop of cell 6 does not touch the
\* structure of net; it is the subject of SpecTrain).
TestBatch ==
    /\ pc = "data"
    /\ \E D \in Differences : x' = Input(1, ImgRows, ImgCols, D)
    /\ pc' = "eval"
    /\ UNCHANGED <<net, loc, y, reconst, i, j, written, training>>

\* net(x) of the test loss.
Evaluate ==
    /\ pc = "eval"
    /\ y' = NetForward(net, x)
    /\ pc' = "cell7"
    /\ UNCHANGED <<net, x, loc, reconst, i, j, written, training>>

\* reconst = mx.nd.array(x, ctx=ctx); i = 14; j = 0
Copy ==
    /\ pc = "cell7"
    /\ reconst' = [x EXCEPT !.e = <<"reconst", <<>>>>]
    /\ i' = FirstRow
    /\ j' = 0
    /\ written' = <<>>
    /\ pc' = "loop"
    /\ UNCHANGED <<net, x, loc, y, training>>

\* reconst[:,0,r,c] = b[:,0,r,c]: element (r, c) of channel 0 takes b's
\* value; the expression of the array counts the assignments made to it.
Assign(a, r, c, b) ==
    [a EXCEPT !.t[1] = IF <<r, c>> \in b.t[1] THEN @ \cup {<<r, c>>}
                       ELSE @ \ {<<r, c>>},
              !.e = <<"setitem", <<a.e>>>>]

NextPixelColumnMajor(r, c) ==
    IF r + 1 = ImgRows THEN <<FirstRow, c + 1>> ELSE <<r + 1, c>>

\* for i in range(14,28): for j in range(28): the indices of the iteration
\* after (r, c).
NextPixel(r, c) ==
    IF c + 1 = ImgCols THEN <<r + 1, 0>> ELSE <<r, c + 1>>

\* One iteration of the loop body:
\* reconst[:,0,i,j] = net(reconst).asnumpy()[:,0,i,j]
Complete ==
    /\ pc = "loop"
    /\ i < ImgRows
    /\ j < ImgCols
    /\ y' = NetForward(net, reconst)
    /\ IF y'.ok
       THEN /\ reconst' = Assign(reconst, i, j, y')
            /\ written' = Append(written, <<i, j>>)
            /\ i' = NextPixel(i, j)[1]
            /\ j' = NextPixel(i, j)[2]
            /\ pc' = IF <<i, j>> = <<ImgRows - 1, ImgCols - 1>> THEN "end" ELSE "loop"
       ELSE /\ pc' = "raised"
            /\ UNCHANGED <<reconst, i, j, written>>
    /\ UNCHANGED <<net, x, loc, training>>

Next ==
    \/ NewSequential
    \/ Add
    \/ TestBatch
    \/ Evaluate
    \/ Copy
    \/ Complete

Spec == Init /\ [][Next]_vars

\* p comes strictly before q in raster order.
Earlier(p, q) == p[1] < q[1] \/ (p[1] = q[1] /\ p[2] < q[2])

\* C1: the output of the notebook's network at pixel (i, j) depends only on
\* input pixels strictly earlier in raster order: two inputs that agree on
\* all pixels before (i, j) give the same output at (i, j), for every (i, j)
\* of the image.
NetOutputCausal ==
    pc = "cell7" =>
        /\ y.ok
        /\ Channels(y) = 1
        /\ y.H = x.H
        /\ y.W = x.W
        /\ \A q \in Changed(y) : \E p \in Changed(x) : Earlier(p, q)

\* The network output changes at a pixel right of a changed input pixel of
\* the same row, and at a pixel of a row below it.
NetOutputReached ==
    /\ pc = "cell7"
    /\ Cardinality(Changed(x)) = 1
    /\ \E q \in Changed(y) : \E p \in Changed(x) : p[1] = q[1] /\ p[2] < q[2]
    /\ \E q \in Changed(y) : \E p \in Changed(x) : p[1] < q[1] /\ p[2] > q[2]

\* C2: for two batches that agree on the rows of the upper half, the
\* completion loop runs to its end and ends with identical reconst arrays,
\* although reconst starts as a copy of the whole image.
CompletedFromUpperHalf ==
    /\ pc # "raised"
    /\ (pc = "end" /\ Changed(x) \subseteq LowerHalf) => Changed(reconst) = {}

\* The loop has ended for two batches that differ in every pixel of the
\* lower half.
CompletedReached ==
    /\ pc = "end"
    /\ Changed(x) = LowerHalf
    /\ Changed(reconst) = {}

(***************************************************************************)
(* The gated layers of the constructed network.                            *)
(***************************************************************************)
\* The indices of the GatedLayer children of a Sequential.
GatedBlocks(n) == {k \in 1 .. Len(n.blocks) : n.blocks[k].cls = "GatedLayer"}

\* The input child k of a Sequential is called with, for network input a.
BlockInput(n, k, a) == SequentialForward(SubSeq(n.blocks, 1, k - 1), a)

\* C11: in the constructed network all six GatedLayers have residual=False,
\* so that the horizontal output of each of them is the result of htoh
\* itself, with no term of the layer input added; the first GatedLayer is of
\* kernel_type 'A' and every later one of kernel_type 'B'.
ResidualOmitted ==
    pc = "cell7" =>
        /\ Cardinality(GatedBlocks(net)) = 6
        /\ \A k \in GatedBlocks(net) :
              /\ ~net.blocks[k].residual
              /\ net.blocks[k].kernel_type = "A" <=>
                    (\A m \in GatedBlocks(net) : k <= m)
              /\ net.blocks[k].kernel_type \in KernelTypes
              /\ LET l == GatedLocals(net.blocks[k], BlockInput(net, k, x))
                 IN  /\ l.hstack_out.ok
                     /\ l.hstack_out.e[1] = "htoh"
                     /\ l.hstack_out.t = l.hstack_preres.t

\* The network of eight blocks has been called on two batches that differ,
\* and the change reaches the horizontal output of the last GatedLayer.
ResidualOmittedReached ==
    /\ pc = "cell7"
    /\ Len(net.blocks) = 8
    /\ Changed(x) # {}
    /\ Changed(GatedLocals(net.blocks[7], BlockInput(net, 7, x)).hstack_out) # {}

(***************************************************************************)
(* The two streams of a stand-alone GatedLayer.                            *)
(***************************************************************************)
\* C15: a GatedLayer of kernel_type 'A' built with the default
\* residual=True keeps the current position out of its output: no output
\* channel at (i, j), vertical or horizontal, changes with the layer input
\* at (i, j).
GatedACausalWithResidual ==
    (GatedApplied /\ net.kernel_type = "A" /\ net.residual /\ y.ok) =>
        \A q \in Changed(y) : \E p \in Changed(x) : p # q

\* C16: for every kernel_type and residual setting the vertical half of the
\* output (the first `channels` channels) is the gated VStack result of vx
\* and changes only with vx: a change confined to the horizontal half hx of
\* the input leaves it unchanged.
VerticalIgnoresHorizontal ==
    (GatedApplied /\ y.ok) =>
        /\ Channels(loc.vstack_out) = net.channels
        /\ SubSeq(y.t, 1, net.channels) = loc.vstack_out.t
        /\ Changed(loc.vx) = {} => Changed(loc.vstack_out) = {}
        /\ \A c \in 1 .. net.channels :
              \A q \in y.t[c] : \E p \in Changed(loc.vx) : p[1] <= q[1]

\* A change of hx alone has changed the horizontal half of the output of a
\* type-B layer and has left the vertical half unchanged.
VerticalIgnoresHorizontalReached ==
    /\ GatedApplied
    /\ y.ok
    /\ Changed(loc.vx) = {}
    /\ Changed(loc.hx) # {}
    /\ Changed(loc.hstack_out) # {}
    /\ Changed(loc.vstack_out) = {}
    /\ net.kernel_type = "B"

\* C17 (the layer): for every input with an even channel count
\* GatedLayer(channels, ...) returns 2 * channels channels, the first
\* `channels` the vertical stream and the last `channels` the horizontal
\* stream, so that splitting the result in two halves gives back the two
\* streams.
GatedOutputChannels ==
    (GatedApplied /\ Channels(x) % 2 = 0) =>
        /\ y.ok
        /\ Channels(y) = 2 * net.channels
        /\ split(y, 1).t = loc.vstack_out.t
        /\ split(y, 2).t = loc.hstack_out.t

\* C17 (the network): in the notebook's network the first GatedLayer
\* receives 8 channels, every later GatedLayer and the final 1x1 convolution
\* receive 32, and the output has 1 channel.
NetworkChannelCounts ==
    pc = "cell7" =>
        /\ Channels(BlockInput(net, 2, x)) = 8
        /\ \A k \in 3 .. 8 : Channels(BlockInput(net, k, x)) = 32
        /\ Channels(y) = 1

(***************************************************************************)
(* The image completion loop (cell 7).                                     *)
(***************************************************************************)
Range(s) == {s[k] : k \in 1 .. Len(s)}

\* Rows 0..13 of the 28 rows: the upper half of the image.
UpperHalf == {q \in Positions(ImgRows, ImgCols) : q[1] < ImgRows \div 2}

\* The number of elements of the lower half (14 * 28).
LowerCount == (ImgRows - ImgRows \div 2) * ImgCols

LoopFrame ==
    pc \in {"loop", "end"} =>
        /\ reconst.ok
        /\ reconst.H = x.H
        /\ reconst.W = x.W
        /\ Channels(reconst) = Channels(x)
        /\ Range(written) \cap UpperHalf = {}
        /\ \A q \in Positions(ImgRows, ImgCols) \ Range(written) :
              q \in reconst.t[1] <=> q \in x.t[1]
        /\ \A k \in 1 .. Len(written) : \A m \in 1 .. Len(written) :
              written[k] = written[m] => k = m
        /\ pc = "loop" => i < ImgRows /\ j < ImgCols /\ Len(written) < LowerCount
        /\ pc = "end" =>
              /\ Len(written) = LowerCount
              /\ Range(written) = Positions(ImgRows, ImgCols) \ UpperHalf

\* C12: in every state during and after the completion loop the rows of the
\* upper half of reconst are those of the batch x (no position of the upper
\* half has been assigned, and every position not assigned holds x's
\* element); x is not modified by the loop; no position is assigned twice,
\* and the loop ends exactly when all positions of the lower half of
\* channel 0 have been assigned, after 14 * 28 assignments at full size.
LoopChangesLowerHalfOnly ==
    /\ []LoopFrame
    /\ [][pc = "loop" => x' = x]_vars

\* The loop has ended on two batches that differ in a pixel of the upper
\* half, which the completed arrays still differ in.
LoopChangesLowerHalfOnlyReached ==
    /\ pc = "end"
    /\ Len(written) = LowerCount
    /\ Changed(x) # {}
    /\ Changed(x) \subseteq UpperHalf
    /\ Changed(reconst) \cap UpperHalf = Changed(x)

\* The expression of reconst after n assignments.
RECURSIVE Version(_)
Version(n) ==
    IF n = 0 THEN <<"reconst", <<>>>> ELSE Term1("setitem", Version(n - 1))

\* C13: the loop assigns the lower half in raster order: when (i, j) is
\* about to be assigned, exactly the lower-half positions earlier in raster
\* order have been assigned; and the value assigned is the output of the
\* network called on the array as it stood then, with all earlier
\* assignments made and none of the later ones.
RasterOrder ==
    pc \in {"loop", "end"} =>
        /\ \A k \in 1 .. Len(written) :
              written[k] = <<ImgRows \div 2 + (k - 1) \div ImgCols, (k - 1) % ImgCols>>
        /\ pc = "loop" =>
              Range(written) =
                 {q \in Positions(ImgRows, ImgCols) \ UpperHalf : Earlier(q, <<i, j>>)}
        /\ reconst.e = Version(Len(written))
        /\ Len(written) > 0 =>
              /\ y.e = Term1("net", Version(Len(written) - 1))
              /\ written[Len(written)] \in reconst.t[1]
                    <=> written[Len(written)] \in y.t[1]

\* The loop has passed the end of a row: the first position of the second
\* row of the lower half is about to be assigned.
RasterOrderReached ==
    /\ pc = "loop"
    /\ i = ImgRows \div 2 + 1
    /\ j = 0
    /\ Len(written) = ImgCols
    /\ Changed(y) # {}

\* The positions assigned at or after the assignment of q: the positions in
\* which the array q's value was computed from may differ from the final
\* array.
WrittenFrom(q) ==
    {written[k] : k \in {n \in 1 .. Len(written) :
                            \E m \in 1 .. n : written[m] = q}}

\* C14: after the loop the completed array is a fixed point of the network
\* on the lower half: for every position q of the lower half the network
\* output at q is the same on the final array as on the array q's value was
\* computed from, so that reconst at q equals net(reconst) at q.  (The two
\* arrays compared are arrays of one run; the formula does not read x, and
\* is evaluated in the run on two equal batches.)
CompletedIsFixedPoint ==
    (pc = "end" /\ Changed(x) = {}) =>
        /\ Range(written) = Positions(ImgRows, ImgCols) \ UpperHalf
        /\ \A q \in Range(written) :
              q \notin Changed(NetForward(net,
                          Input(1, ImgRows, ImgCols, {<<1, p>> : p \in WrittenFrom(q)})))

\* The loop has ended, and the later assignments do change the network
\* output at later positions.
CompletedIsFixedPointReached ==
    /\ pc = "end"
    /\ Changed(x) = {}
    /\ \E q \in Range(written) :
          /\ WrittenFrom(q) # Range(written)
          /\ Changed(NetForward(net,
                Input(1, ImgRows, ImgCols, {<<1, p>> : p \in WrittenFrom(q)}))) # {}

(***************************************************************************)
(* Data preparation and training (cells 5 and 6), for the network cell 4   *)
(* has built.  The parameters are modelled by the number of updates        *)
(* applied to them, the datasets by their lengths.                         *)
(***************************************************************************)
TrainBatchSize == 24   \* train_loader: batch_size=24
TestBatchSize == 24    \* test_loader: batch_size=24
StepBatchSize == 12    \* trainer.step(12)
Epochs == 5            \* for _ in range(5)

MaxBatches == 2        \* datasets of up to MaxBatches batches

\* gluon.data.DataLoader(dataset, batch_size=...), last_batch='keep'
DataLoader(len, batch_size) == [len |-> len, batch_size |-> batch_size]

\* len(loader)
NumBatches(loader) ==
    (loader.len + loader.batch_size - 1) \div loader.batch_size

\* The number of samples of the k-th batch of the loader.
BatchLen(loader, k) ==
    IF k * loader.batch_size <= loader.len THEN loader.batch_size
    ELSE loader.len - (k - 1) * loader.batch_size

\* The next batch of an iteration over the loader.
NextBatch(loader, b) ==
    [index |-> b.index + 1, size |-> BatchLen(loader, b.index + 1)]

\* Dataset lengths: whole batches, or a last batch of a single sample.
DatasetLens(batch_size) ==
    {(n - 1) * batch_size + r : n \in 1 .. MaxBatches, r \in {1, batch_size}}

\* mx.nd.sum(a, axis=[1,2,3]): one number per sample.
sum(a) ==
    IF a.ok
    THEN [ok |-> TRUE, H |-> 1, W |-> 1,
          t |-> <<IF AnyChannel(a) = {} THEN {} ELSE {<<0, 0>>}>>,
          e |-> <<"sum", <<a.e>>>>]
    ELSE Failed

\* mx.nd.sum((out - a)**2, axis=[1,2,3])
SquaredError(out, a) == sum(Elementwise("square", Broadcast("sub", out, a)))

InitTrain ==
    /\ net = [cls |-> "Sequential", blocks |-> NotebookBlocks]
    /\ x = NoTensor
    /\ loc = NoLocals
    /\ y = NoTensor
    /\ pc = "cell5"
    /\ Idle

\* train_loader = ...; test_loader = ...
NewLoaders ==
    /\ pc = "cell5"
    /\ \E n \in DatasetLens(TrainBatchSize), m \in DatasetLens(TestBatchSize) :
          /\ train_loader' = DataLoader(n, TrainBatchSize)
          /\ test_loader' = DataLoader(m, TestBatchSize)
    /\ pc' = "cell6"
    /\ UNCHANGED <<net, x, loc, y, reconst, i, j, written, trainer, params,
                   grad, epoch, batch, loss, cumulative_loss, test_loss, calls>>

\* trainer = gluon.Trainer(net.collect_params(), 'adam', ...)
NewTrainer ==
    /\ pc = "cell6"
    /\ trainer' = [optimizer |-> "adam", batch_size |-> 0]
    /\ epoch' = 0
    /\ pc' = "epoch"
    /\ UNCHANGED <<net, x, loc, y, reconst, i, j, written, train_loader,
                   test_loader, params, grad, batch, loss, cumulative_loss,
                   test_loss, calls>>

\* for _ in range(5): cumulative_loss = 0
EpochStart ==
    /\ pc = "epoch"
    /\ IF epoch < Epochs
       THEN /\ cumulative_loss' = 0
            /\ batch' = NoBatch
            /\ calls' = <<>>
            /\ pc' = "train"
       ELSE /\ pc' = "trained"
            /\ UNCHANGED <<cumulative_loss, batch, calls>>
    /\ UNCHANGED <<net, x, loc, y, reconst, i, j, written, train_loader,
                   test_loader, trainer, params, grad, epoch, loss, test_loss>>

\* for x,_ in train_loader: x = mx.nd.array(x, ctx=ctx); after the last
\* batch: test_loss = 0
TrainBatch ==
    /\ pc = "train"
    /\ IF batch.index < NumBatches(train_loader)
       THEN /\ batch' = NextBatch(train_loader, batch)
            /\ x' = Input(1, ImgRows, ImgCols, {})
            /\ pc' = "record"
            /\ UNCHANGED test_loss
       ELSE /\ test_loss' = 0
            /\ batch' = NoBatch
            /\ pc' = "test"
            /\ UNCHANGED x
    /\ UNCHANGED <<net, loc, y, reconst, i, j, written, train_loader,
                   test_loader, trainer, params, grad, epoch, loss,
                   cumulative_loss, calls>>

\* with mx.autograd.record(): loss = mx.nd.sum((net(x) - x)**2, axis=[1,2,3])
Loss ==
    /\ pc = "record"
    /\ y' = NetForward(net, x)
    /\ LET l == SquaredError(y', x)
       IN  IF l.ok
           THEN /\ loss' = [e |-> l.e, size |-> batch.size, recorded |-> TRUE]
                /\ calls' = Append(calls, "loss")
                /\ pc' = "backward"
           ELSE /\ pc' = "raised"
                /\ UNCHANGED <<loss, calls>>
    /\ UNCHANGED <<net, x, loc, reconst, i, j, written, train_loader,
                   test_loader, trainer, params, grad, epoch, batch,
                   cumulative_loss, test_loss>>

\* loss.backward(): raises for a loss computed outside autograd.record()
Backward ==
    /\ pc = "backward"
    /\ IF loss.recorded
       THEN /\ grad' = [fresh |-> TRUE, of |-> batch.index]
            /\ calls' = Append(calls, "backward")
            /\ pc' = "step"
       ELSE /\ pc' = "raised"
            /\ UNCHANGED <<grad, calls>>
    /\ UNCHANGED <<net, x, loc, y, reconst, i, j, written, train_loader,
                   test_loader, trainer, params, epoch, batch, loss,
                   cumulative_loss, test_loss>>

\* trainer.step(12): the gradients, scaled by 1 / 12, update the
\* parameters; raises for gradients not renewed since the last step
Step ==
    /\ pc = "step"
    /\ IF grad.fresh
       THEN /\ trainer' = [trainer EXCEPT !.batch_size = StepBatchSize]
            /\ params' = params + 1
            /\ grad' = [grad EXCEPT !.fresh = FALSE]
            /\ calls' = Append(calls, "step")
            /\ pc' = "accumulate"
       ELSE /\ pc' = "raised"
            /\ UNCHANGED <<trainer, params, grad, calls>>
    /\ UNCHANGED <<net, x, loc, y, reconst, i, j, written, train_loader,
                   test_loader, epoch, batch, loss, cumulative_loss, test_loss>>

\* cumulative_loss += mx.nd.mean(loss).asscalar(): one more term
Accumulate ==
    /\ pc = "accumulate"
    /\ cumulative_loss' = cumulative_loss + 1
    /\ pc' = "train"
    /\ UNCHANGED <<net, x, loc, y, reconst, i, j, written, train_loader,
                   test_loader, trainer, params, grad, epoch, batch, loss,
                   test_loss, calls>>

TestLossStepping ==
    /\ pc = "test"
    /\ IF batch.index < NumBatches(test_loader)
       THEN /\ batch' = NextBatch(test_loader, batch)
            /\ x' = Input(1, ImgRows, ImgCols, {})
            /\ y' = NetForward(net, x')
            /\ test_loss' = test_loss + 1
            /\ calls' = Append(calls, "test_loss")
            /\ params' = params + 1
            /\ pc' = IF SquaredError(y', x').ok THEN "test" ELSE "raised"
       ELSE /\ pc' = "print"
            /\ UNCHANGED <<batch, x, y, test_loss, calls, params>>
    /\ UNCHANGED <<net, loc, reconst, i, j, written, train_loader,
                   test_loader, trainer, grad, epoch, loss,
                   cumulative_loss>>

\* for x, _ in test_loader: x = mx.nd.array(x, ctx=ctx);
\* test_loss += mx.nd.mean(mx.nd.sum((net(x) - x)**2, axis=[1,2,3])).asscalar()
TestLoss ==
    /\ pc = "test"
    /\ IF batch.index < NumBatches(test_loader)
       THEN /\ batch' = NextBatch(test_loader, batch)
            /\ x' = Input(1, ImgRows, ImgCols, {})
            /\ y' = NetForward(net, x')
            /\ test_loss' = test_loss + 1
            /\ calls' = Append(calls, "test_loss")
            /\ pc' = IF SquaredError(y', x').ok THEN "test" ELSE "raised"
       ELSE /\ pc' = "print"
            /\ UNCHANGED <<batch, x, y, test_loss, calls>>
    /\ UNCHANGED <<net, loc, reconst, i, j, written, train_loader,
                   test_loader, trainer, params, grad, epoch, loss,
                   cumulative_loss>>

\* print('train loss: ', ...): the end of the epoch
PrintLosses ==
    /\ pc = "print"
    /\ epoch' = epoch + 1
    /\ pc' = "epoch"
    /\ UNCHANGED <<net, x, loc, y, reconst, i, j, written, train_loader,
                   test_loader, trainer, params, grad, batch, loss,
                   cumulative_loss, test_loss, calls>>

NextTrain ==
    \/ NewLoaders
    \/ NewTrainer
    \/ EpochStart
    \/ TrainBatch
    \/ Loss
    \/ Backward
    \/ Step
    \/ Accumulate
    \/ TestLoss
    \/ PrintLosses

SpecTrain == InitTrain /\ [][NextTrain]_vars

\* The positions of cell 6 inside an epoch.
InEpoch ==
    pc \in {"train", "record", "backward", "step", "accumulate", "test", "print"}

\* The k-th call of an epoch over n training batches: loss, backward and
\* step for each training batch in turn, then test losses only.
CallOfEpoch(k, n) ==
    IF k <= 3 * n THEN <<"loss", "backward", "step">>[((k - 1) % 3) + 1]
    ELSE "test_loss"

\* sum over channels and pixels of (net(x) - x) squared
ClaimedLoss ==
    Term1("sum", Term1("square",
        Term2("sub", Term1("net", <<"x", <<>>>>), <<"x", <<>>>>)))

\* C18: the training run performs 5 epochs; in each epoch every training
\* batch is followed by exactly one loss evaluation (per-sample sum of the
\* squared difference between the network output and its input, recorded
\* for differentiation), then one backward pass, then one optimizer step, in
\* that order; the test pass of the epoch makes no backward pass and no
\* optimizer step, so that the parameters have been updated once per
\* training batch and are not changed by the evaluation.
TrainingRunOrder ==
    /\ pc # "raised"
    /\ pc = "trained" =>
          /\ epoch = 5
          /\ params = 5 * NumBatches(train_loader)
    /\ InEpoch =>
          /\ epoch < 5
          /\ \A k \in 1 .. Len(calls) :
                calls[k] = CallOfEpoch(k, NumBatches(train_loader))
          /\ params = epoch * NumBatches(train_loader)
                      + Cardinality({k \in 1 .. Len(calls) : calls[k] = "step"})
          /\ pc = "train" => Len(calls) = 3 * batch.index
          /\ pc = "record" => Len(calls) = 3 * (batch.index - 1)
          /\ pc \in {"backward", "step", "accumulate"} =>
                /\ loss.e = ClaimedLoss
                /\ loss.recorded
                /\ loss.size = batch.size
          /\ pc = "step" => grad = [fresh |-> TRUE, of |-> batch.index]
          /\ pc = "test" =>
                Len(calls) = 3 * NumBatches(train_loader) + batch.index
          /\ pc = "print" =>
                Len(calls) = 3 * NumBatches(train_loader) + NumBatches(test_loader)
          /\ pc \in {"test", "print"} =>
                /\ params = (epoch + 1) * NumBatches(train_loader)
                /\ ~grad.fresh

\* The run has ended on a training set of two batches and a test set of
\* two batches, the last one partial.
TrainingRunOrderReached ==
    /\ pc = "trained"
    /\ NumBatches(train_loader) = 2
    /\ NumBatches(test_loader) = 2
    /\ BatchLen(test_loader, 2) < TestBatchSize
    /\ params = 10

\* C19: at every optimizer step the normaliser passed to trainer.step is
\* the batch size train_loader was built with.
StepNormaliserIsBatchSize ==
    trainer.batch_size # 0 => trainer.batch_size = train_loader.batch_size

====
